---- MODULE Spec2Model ----
(***************************************************************************)
(* Deal financial model engine of joshuagao7/CompsandMAanalysis:           *)
(* the IRR solver (calculate_irr), the synergy sweep and break-even scan   *)
(* (calculate_irr_sensitivity), the transaction-value search               *)
(* (find_transaction_value_for_irr) and the pro forma consolidation        *)
(* (calculate_has_gets_metrics).                                           *)
(*                                                                         *)
(* Numbers.  The scripts compute in binary floating point.  Here a number  *)
(* is a fixed-point integer:                                               *)
(*   - a rate is held in hundredths (RateScale steps per unit), so the     *)
(*     search domain -0.99 .. 10.0 is LOW .. HIGH = -99 .. 1000 and a      *)
(*     bisection midpoint is rounded down to a representable rate, as the  *)
(*     float midpoint is rounded to a representable double;                *)
(*   - an NPV is never rounded: it is the exact fraction NpvNum / NpvDen   *)
(*     held in arbitrary-precision integers (Big), so a sign test or a     *)
(*     tolerance test on it is exact.                                      *)
(***************************************************************************)
EXTENDS Integers, Sequences, FiniteSets, TLC

VARIABLES
    cash_flows,   \* calculate_irr: the stream being solved
    low,          \* calculate_irr: lower end of the bracket (hundredths)
    high,         \* calculate_irr: upper end of the bracket (hundredths)
    iter,         \* calculate_irr: bisection iterations completed
    irr,          \* calculate_irr: the value returned (Optional)
    pc,           \* calculate_irr: "check" | "loop" | "done" ("idle": not run)
    hg_in,        \* calculate_has_gets_metrics: the facts and quotes loaded
    hg_locals,    \* calculate_has_gets_metrics: its local variables, as the
                  \*   report printed before the return shows them
    hg_result,    \* calculate_has_gets_metrics: the dictionary returned
    hg_table,     \* update_has_gets_csv: the ratio cells of "Buyer Gets"
    hg_pc,        \* calculate_has_gets.py: "start" | "returned" | "exit";
                  \*   update_has_gets_table.py: "table"
    sw_in,        \* calculate_irr_sensitivity: the facts and quotes loaded
    results,      \* calculate_irr_sensitivity: the list "results"
    printed,      \* calculate_irr_sensitivity: "irr_str" of each table row
    test_index,   \* calculate_irr_sensitivity: position in the break-even scan
    break_even,   \* calculate_irr_sensitivity: the break-even level printed
    expected_irr, \* calculate_irr_sensitivity: "expected_irr" (1/10000)
    sw_pc,        \* calculate_irr_sensitivity.py: "sweep" | "break_even" |
                  \*   "expected" | "return" | "returned" | "raised" |
                  \*   "exit0" | "exit1"
    tv_in,        \* find_transaction_value_for_irr: the arguments
    tv_low,       \* find_transaction_value_for_irr: "low"
    tv_high,      \* find_transaction_value_for_irr: "high"
    tv_iter,      \* find_transaction_value_for_irr: iterations completed
    tv_result,    \* find_transaction_value_for_irr: the value returned
    tv_pc,        \* find_transaction_value_for_irr: "loop" | "done"
    pj_in,        \* building a stream: the amounts and the holding period
    pj_flows,     \* building a stream: the list "cash_flows"
    pj_year,      \* building a stream: "year"
    pj_earlier,   \* building a stream: the arguments and the stream of the
                  \*   construction made before in the same run, if any
    pj_pc,        \* building a stream: "start" | "years" | "done"
    cf_financials, \* cash flow facts: the entries of master_financials.json
                  \*   read so far
    cf_results,   \* calculate_cash_flow_metrics, main: the list "results"
    cf_base,      \* calculate_irr_sensitivity: "lscc_operating_cf" and
                  \*   "lscc_free_cash_flow"
    cf_pc,        \* calculate_cash_flow_metrics.py: "loop" | "tables" | "done";
                  \*   calculate_irr_sensitivity lines 88-91: "base" | "based"
    ao_in,        \* the inputs of a sweep whose scenarios are evaluated in any order
    ao_sequential, \* "results" and "expected_irr" of the same sweep run as written
    ao_flows,     \* one cash_flows list per scenario in evaluation
    ao_phase,     \* where each scenario is: todo, projected, done
    ao_records,   \* the result record of each scenario, once evaluated
    ao_expected,  \* the expected IRR accumulated over the evaluated records
    ao_pc         \* "start" | "sweep" | "returned"

irrVars == <<cash_flows, low, high, iter, irr, pc>>
hgVars == <<hg_in, hg_locals, hg_result, hg_table, hg_pc>>
swVars == <<sw_in, results, printed, test_index, break_even, expected_irr, sw_pc>>
tvVars == <<tv_in, tv_low, tv_high, tv_iter, tv_result, tv_pc>>
pjVars == <<pj_in, pj_flows, pj_year, pj_earlier, pj_pc>>
cfVars == <<cf_financials, cf_results, cf_base, cf_pc>>
aoVars == <<ao_in, ao_sequential, ao_flows, ao_phase, ao_records, ao_expected, ao_pc>>
vars ==
    <<cash_flows, low, high, iter, irr, pc,
      hg_in, hg_locals, hg_result, hg_table, hg_pc,
      sw_in, results, printed, test_index, break_even, expected_irr, sw_pc,
      tv_in, tv_low, tv_high, tv_iter, tv_result, tv_pc,
      pj_in, pj_flows, pj_year, pj_earlier, pj_pc,
      cf_financials, cf_results, cf_base, cf_pc,
      ao_in, ao_sequential, ao_flows, ao_phase, ao_records, ao_expected, ao_pc>>

----------------------------------------------------------------------------
(* Optional values: Python's None against a number. *)
None == [def |-> FALSE, val |-> 0]
Some(v) == [def |-> TRUE, val |-> v]
\* Python truthiness of an Optional number: None and 0 are falsy.
Truthy(o) == o.def /\ o.val # 0

----------------------------------------------------------------------------
(* Arbitrary-precision integers: NLimbs limbs, least significant first,    *)
(* limbs 1..NLimbs-1 in 0..Base-1 and the top limb carrying the sign.      *)
(* Python computes a value where it is written, before anything uses it:   *)
(* Evaluated(x) computes x at that place.                                  *)
Evaluated(x) == x = x

Base == 1000000
NLimbs == 7

RECURSIVE Carry(_, _, _)
Carry(s, i, c) ==
    IF i = NLimbs THEN <<s[i] + c>>
    ELSE <<(s[i] + c) % Base>> \o Carry(s, i + 1, (s[i] + c) \div Base)

BigOf(n) == Carry([i \in 1..NLimbs |-> IF i = 1 THEN n ELSE 0], 1, 0)
BigAdd(x, y) == Carry([i \in 1..NLimbs |-> x[i] + y[i]], 1, 0)
\* x * m for |m| * Base < 2^31
BigScale(x, m) == Carry([i \in 1..NLimbs |-> x[i] * m], 1, 0)
BigSub(x, y) == Carry([i \in 1..NLimbs |-> x[i] - y[i]], 1, 0)
BigSign(x) ==
    IF x[NLimbs] < 0 THEN -1
    ELSE IF \A i \in 1..NLimbs : x[i] = 0 THEN 0 ELSE 1
BigAbs(x) == IF x[NLimbs] < 0 THEN BigScale(x, -1) ELSE x
\* x * m^k
RECURSIVE BigScalePow(_, _, _)
BigScalePow(x, m, k) ==
    CASE k = 0 -> x
      [] Evaluated(x) -> BigScalePow(BigScale(x, m), m, k - 1)

----------------------------------------------------------------------------
(* calculate_irr *)
RateScale == 100
LOW == -99
HIGH == 1000
MAX_ITERATIONS == 100
\* tolerance = 1e-6 = 1 / (TolRoot * TolRoot)
TolRoot == 1000
PERCENT == 100

\* npv(rate) = sum(cf / (1 + rate) ** i), rate = m / RateScale, as the exact
\* fraction NpvNum / NpvDen with NpvDen = (RateScale + m)^(Len - 1) > 0:
\* NpvNum = sum over i of cf_i * RateScale^i * (RateScale + m)^(Len - 1 - i).
RECURSIVE NpvNumFrom(_, _, _, _)
NpvNumFrom(cfs, m, k, acc) ==
    LET carried == BigScale(acc, RateScale + m)
        term == BigScalePow(BigOf(cfs[k]), RateScale, k - 1)
    IN  CASE k > Len(cfs) -> acc
          [] Evaluated(carried) /\ Evaluated(term) ->
               NpvNumFrom(cfs, m, k + 1, BigAdd(carried, term))
NpvNum(cfs, m) == NpvNumFrom(cfs, m, 1, BigOf(0))
NpvDen(cfs, m) ==
    BigScalePow(BigOf(1), RateScale + m, IF Len(cfs) = 0 THEN 0 ELSE Len(cfs) - 1)
\* sign of npv(rate)
NpvSign(cfs, m) == IF Evaluated(m) THEN BigSign(NpvNum(cfs, m)) ELSE 0
\* abs(npv(rate)) < 1 / (root * root)
NpvWithin(cfs, m, root) ==
    LET num == NpvNum(cfs, m)
        den == NpvDen(cfs, m)
        scaled == BigScale(BigAbs(num), root)
        rescaled == BigScale(scaled, root)
    IN  /\ Evaluated(m) /\ Evaluated(num) /\ Evaluated(den)
        /\ Evaluated(scaled) /\ Evaluated(rescaled)
        /\ BigSign(BigSub(den, rescaled)) > 0

\* mid = (low + high) / 2, rounded down to a representable rate
Mid(lo, hi) == (lo + hi) \div 2

\* Mutant of CeilingFails: the check is made at the floor of the domain.
CeilingFailsAtLow(cfs) == NpvSign(cfs, LOW) > 0
\* "if npv(high) > 0: return None"
CeilingFails(cfs) == NpvSign(cfs, HIGH) > 0

\* Mutant of Converged: a tolerance of 1 in place of 1e-6.
ConvergedLoose(cfs, lo, hi) == NpvWithin(cfs, Mid(lo, hi), 1)
\* "if abs(npv_mid) < tolerance: return mid * 100"
Converged(cfs, lo, hi) == NpvWithin(cfs, Mid(lo, hi), TolRoot)

\* Mutant of NextLow: low is moved to the midpoint whatever the sign.
NextLowAlways(cfs, lo, hi) == Mid(lo, hi)
\* "if npv_mid > 0: low = mid  else: high = mid"
NextLow(cfs, lo, hi) == IF NpvSign(cfs, Mid(lo, hi)) > 0 THEN Mid(lo, hi) ELSE lo
NextHigh(cfs, lo, hi) == IF NpvSign(cfs, Mid(lo, hi)) > 0 THEN hi ELSE Mid(lo, hi)

\* "return mid * 100": a rate as a percentage
ToPercent(m) == m * PERCENT

\* Mutant of BestEffort: the midpoint is returned as a rate, not a percentage.
BestEffortAsRate(lo, hi) == Some(Mid(lo, hi))
\* "return ((low + high) / 2) * 100" after the loop
BestEffort(lo, hi) == Some(ToPercent(Mid(lo, hi)))

\* The loop "for _ in range(100)" from a bracket with n iterations left.  An
\* iteration that neither returns nor moves the bracket repeats unchanged
\* until the range is used up, so the remaining ones are skipped.
RECURSIVE Bisect(_, _, _, _)
Bisect(cfs, lo, hi, n) ==
    CASE n = 0 -> BestEffort(lo, hi)
      [] Converged(cfs, lo, hi) -> Some(ToPercent(Mid(lo, hi)))
      [] NextLow(cfs, lo, hi) = lo /\ NextHigh(cfs, lo, hi) = hi -> BestEffort(lo, hi)
      [] OTHER -> Bisect(cfs, NextLow(cfs, lo, hi), NextHigh(cfs, lo, hi), n - 1)

\* An entry that is not a number (None, a string), as a token no amount
\* equals: arithmetic on it raises TypeError.
NonNumeric == -2147483647
\* npv(rate) raises: "cf / (1 + rate) ** i" meets an entry that is not a number
NpvRaises(cfs) == \E i \in 1..Len(cfs) : cfs[i] = NonNumeric
\* Mutant of IrrOnException: the handler returns 0 in place of None.
IrrOnExceptionZero == Some(0)
\* "except: return None"
IrrOnException == None

\* calculate_irr(cash_flows); the first statement that evaluates npv is the
\* ceiling check, so a stream npv raises on never reaches the loop
calculate_irr(cfs) ==
    IF NpvRaises(cfs) THEN IrrOnException
    ELSE IF CeilingFails(cfs) THEN None
    ELSE Bisect(cfs, LOW, HIGH, MAX_ITERATIONS)

----------------------------------------------------------------------------
(* calculate_irr, one step at a time *)
MaxLen == 2
CashValues == {-100, -10, 0, 10, 110}
\* Streams of the scripts' shape and the streams of the spec's examples.
ExampleStreams ==
    { <<-100, 110>>, <<-1000, 200, 200, 200, 200, 1200>>, <<-1000, 1105>>,
      <<-1, 100>>, <<-100, 230, -132>>, <<0, 0, 0, 0, 0, 0, 0, 0, 0, -1>>,
      <<-100, NonNumeric>>, <<NonNumeric, -100, 110>>, <<-100, 110, NonNumeric>> }
RECURSIVE SeqsUpTo(_, _)
SeqsUpTo(S, n) ==
    IF n = 0 THEN {<<>>}
    ELSE SeqsUpTo(S, n - 1) \cup
         {Append(s, x) : s \in {t \in SeqsUpTo(S, n - 1) : Len(t) = n - 1}, x \in S}
Streams == ExampleStreams \cup SeqsUpTo(CashValues, MaxLen + 1)

\* The parts of the state a specification does not run.
IrrIdle ==
    /\ cash_flows = <<>>
    /\ low = LOW
    /\ high = HIGH
    /\ iter = 0
    /\ irr = None
    /\ pc = "idle"
HgIdle ==
    /\ hg_in = None /\ hg_locals = None /\ hg_result = None
    /\ hg_table = None /\ hg_pc = "idle"
SwIdle ==
    /\ sw_in = None
    /\ results = <<>>
    /\ printed = <<>>
    /\ test_index = 1
    /\ break_even = None
    /\ expected_irr = 0
    /\ sw_pc = "idle"
PjIdle ==
    /\ pj_in = None
    /\ pj_flows = <<>>
    /\ pj_year = 0
    /\ pj_earlier = None
    /\ pj_pc = "idle"
CfIdle ==
    /\ cf_financials = <<>>
    /\ cf_results = <<>>
    /\ cf_base = None
    /\ cf_pc = "idle"
AoIdle ==
    /\ ao_in = None
    /\ ao_sequential = None
    /\ ao_flows = <<>>
    /\ ao_phase = <<>>
    /\ ao_records = <<>>
    /\ ao_expected = 0
    /\ ao_pc = "idle"
TvIdle ==
    /\ tv_in = None
    /\ tv_low = 0
    /\ tv_high = 0
    /\ tv_iter = 0
    /\ tv_result = None
    /\ tv_pc = "idle"

InitIrr ==
    /\ cash_flows \in Streams
    /\ low = LOW
    /\ high = HIGH
    /\ iter = 0
    /\ irr = None
    /\ pc = "check"
    /\ HgIdle /\ SwIdle /\ TvIdle /\ PjIdle /\ CfIdle /\ AoIdle

\* lines 44-46 and 63-64: the ceiling check, under the bare except
IrrCeilingCheck ==
    /\ pc = "check"
    /\ IF NpvRaises(cash_flows)
       THEN irr' = IrrOnException /\ pc' = "done"
       ELSE IF CeilingFails(cash_flows)
       THEN irr' = None /\ pc' = "done"
       ELSE irr' = irr /\ pc' = "loop"
    /\ UNCHANGED <<cash_flows, low, high, iter>>
    /\ UNCHANGED <<hgVars, swVars, tvVars, pjVars, cfVars, aoVars>>

\* lines 49-59: one iteration of the loop
IrrIterate ==
    /\ pc = "loop"
    /\ iter < MAX_ITERATIONS
    /\ iter' = iter + 1
    /\ IF Converged(cash_flows, low, high)
       THEN /\ irr' = Some(ToPercent(Mid(low, high)))
            /\ pc' = "done"
            /\ UNCHANGED <<low, high>>
       ELSE /\ low' = NextLow(cash_flows, low, high)
            /\ high' = NextHigh(cash_flows, low, high)
            /\ UNCHANGED <<irr, pc>>
    /\ UNCHANGED cash_flows
    /\ UNCHANGED <<hgVars, swVars, tvVars, pjVars, cfVars, aoVars>>

\* line 62: the range is used up
IrrExhausted ==
    /\ pc = "loop"
    /\ iter = MAX_ITERATIONS
    /\ irr' = BestEffort(low, high)
    /\ pc' = "done"
    /\ UNCHANGED <<cash_flows, low, high, iter>>
    /\ UNCHANGED <<hgVars, swVars, tvVars, pjVars, cfVars, aoVars>>

NextIrr == IrrCeilingCheck \/ IrrIterate \/ IrrExhausted
SpecIrr == InitIrr /\ [][NextIrr]_vars

\* The step machine and the operator calculate_irr agree.
IrrAgree == pc = "done" => irr = calculate_irr(cash_flows)

----------------------------------------------------------------------------
(* Claims about calculate_irr, under SpecIrr *)

\* First entry negative, later entries non-negative.
OutlayThenInflows(cfs) ==
    /\ Len(cfs) >= 2
    /\ cfs[1] < 0
    /\ \A i \in 2..Len(cfs) : cfs[i] >= 0
\* For such a stream NPV falls as the rate rises, so the IRR lies strictly
\* inside the domain exactly when NPV is positive at LOW and negative at HIGH.
IrrStrictlyInside(cfs) == NpvSign(cfs, LOW) > 0 /\ NpvSign(cfs, HIGH) < 0
\* The IRR is a rate the fixed-point grid can hold.
IrrRepresentable(cfs) == \E m \in (LOW + 1)..(HIGH - 1) : NpvSign(cfs, m) = 0
\* abs(NPV(rate)) < 1e-4 = 1 / (100 * 100)
NpvWithin1e4(cfs, m) == NpvWithin(cfs, m, 100)

\* C1: for a stream with a negative first entry, non-negative later entries
\* and an IRR strictly inside (-99%, 1000%), calculate_irr returns a
\* percentage r = 100 * m with abs(NPV(m)) < 1e-4; when no representable rate
\* brings NPV that close (the IRR falls between two neighbouring rates) it
\* returns the representable rate just below the IRR.  [-100, 110] gives 10%
\* and [-1000, 200, 200, 200, 200, 1200] gives 20%.
C1_IrrZeroesNpv ==
    (pc = "done" /\ OutlayThenInflows(cash_flows) /\ IrrStrictlyInside(cash_flows)) =>
        /\ irr.def
        /\ irr.val % PERCENT = 0
        /\ LET m == irr.val \div PERCENT IN
             \/ NpvWithin1e4(cash_flows, m)
             \/ /\ ~IrrRepresentable(cash_flows)
                /\ NpvSign(cash_flows, m) > 0
                /\ NpvSign(cash_flows, m + 1) < 0
        /\ cash_flows = <<-100, 110>> => irr.val = 1000
        /\ cash_flows = <<-1000, 200, 200, 200, 200, 1200>> => irr.val = 2000
C1_Witness ==
    /\ pc = "done"
    /\ cash_flows = <<-1000, 200, 200, 200, 200, 1200>>
    /\ irr = Some(2000)
    /\ NpvWithin1e4(cash_flows, 20)

\* C2 (as claimed): a stream whose NPV has no root in the domain gives None.
\* A stream with no positive entry and some negative entry has NPV < 0 at
\* every rate above -100%, so it has no root.
NoRoot(cfs) ==
    /\ \A i \in 1..Len(cfs) : cfs[i] <= 0
    /\ \E i \in 1..Len(cfs) : cfs[i] < 0
C2_NoRootGivesNone ==
    (pc = "done" /\ NoRoot(cash_flows)) => irr = None

\* C3: a stream whose NPV at the ceiling rate 10.0 is strictly positive gives
\* None, and no bisection iteration has run: the bracket is untouched.
C3_CeilingGivesNone ==
    (pc = "done" /\ NpvSign(cash_flows, HIGH) > 0) =>
        irr = None /\ iter = 0 /\ low = LOW /\ high = HIGH
C3_Witness ==
    pc = "done" /\ NpvSign(cash_flows, HIGH) > 0 /\ irr = None /\ iter = 0

\* C10: when all 100 iterations run without abs(NPV(mid)) < 1e-6, the function
\* still ends, with the midpoint of the final bracket times 100: a number,
\* never None, in the units (rate x 100) of a converged result.
C10_ExhaustedReturnsMidpoint ==
    /\ pc \in {"check", "loop", "done"}
    /\ iter \in 0..MAX_ITERATIONS
    /\ (pc = "done" /\ iter = MAX_ITERATIONS) =>
           irr.def /\ irr.val = 100 * ((low + high) \div 2)
    /\ (pc = "done" /\ iter > 0) =>
           irr.def /\ irr.val = 100 * ((low + high) \div 2)
C10_Witness ==
    /\ pc = "done"
    /\ iter = MAX_ITERATIONS
    /\ ~NpvWithin(cash_flows, (low + high) \div 2, TolRoot)
    /\ irr = Some(100 * ((low + high) \div 2))
    /\ NpvSign(cash_flows, HIGH) < 0
    /\ NpvSign(cash_flows, LOW) > 0

----------------------------------------------------------------------------
(* calculate_has_gets_metrics (scripts/calculate_has_gets.py)              *)
(* Money is held in units of $10,000, a share price in cents and a share   *)
(* count in millions, so price * shares is again in units of $10,000.  A   *)
(* product with a percentage is rounded down to the unit.                  *)

\* x * num / den rounded down, without forming x * num
MulDiv(x, num, den) == (x \div den) * num + ((x % den) * num) \div den

TAX_RATE == 21
INTEREST_RATE == 4
DA_PCT_NVDA == 2
DA_PCT_LSCC == 3
PREMIUM_PCT == 30
\* "annual_synergies = 123_200_000"
ANNUAL_SYNERGIES == 12320

\* A quotient n / d kept exact.
Frac(n, d) == [num |-> n, den |-> d]

\* "offer_price = lscc_current_price * (1 + PREMIUM_PCT)"
OfferPrice(current_price) == MulDiv(current_price, 100 + PREMIUM_PCT, 100)
\* Mutant of TransactionValue: the shares at the current price, no premium.
TransactionValueAtCurrentPrice(current_price, shares) == current_price * shares
\* "transaction_value = offer_price * lscc_shares"
TransactionValue(current_price, shares) == OfferPrice(current_price) * shares

\* calculate_ebitda(operating_income, revenue, da_pct)
calculate_ebitda(operating_income, revenue, da_pct) ==
    operating_income + MulDiv(revenue, da_pct, 100)

\* Mutant of Goodwill: negative goodwill is clamped to zero.
GoodwillClamped(transaction_value, book_value) ==
    IF transaction_value - book_value < 0 THEN 0 ELSE transaction_value - book_value
\* "goodwill = transaction_value - lscc_book_value"
Goodwill(transaction_value, book_value) == transaction_value - book_value

\* The locals of calculate_has_gets_metrics, from the loaded data d.
\* Mutant of QuotientIfPositive: zero where the quotient is undefined.
QuotientOrZero(numer, denom) ==
    IF denom > 0 THEN Some(Frac(numer, denom)) ELSE Some(Frac(0, 1))
\* "numer / denom if denom > 0 else None"
QuotientIfPositive(numer, denom) ==
    IF denom > 0 THEN Some(Frac(numer, denom)) ELSE None

\* "nvda_ebitda = calculate_ebitda(nvda['operating_income'], nvda['revenue'],
\* DA_PCT_NVDA)": the 'ebitda' fact of the entity, if the file has one, is
\* not read
NvdaEbitda(d) ==
    calculate_ebitda(d.nvda_operating_income, d.nvda_revenue, DA_PCT_NVDA)
\* Mutant of LsccEbitda: an 'ebitda' fact in the file is taken as it is.
LsccEbitdaFromFact(d) ==
    IF d.lscc_ebitda.def
    THEN d.lscc_ebitda.val
    ELSE calculate_ebitda(d.lscc_operating_income, d.lscc_revenue, DA_PCT_LSCC)
\* "lscc_ebitda = calculate_ebitda(lscc['operating_income'], lscc['revenue'],
\* DA_PCT_LSCC)"
LsccEbitda(d) ==
    calculate_ebitda(d.lscc_operating_income, d.lscc_revenue, DA_PCT_LSCC)

\* Mutant of ProFormaNetIncome: the interest on the debt, after tax, is
\* charged to it.
ProFormaNetIncomeLessInterest(d) ==
    d.nvda_net_income + d.lscc_net_income
        + MulDiv(ANNUAL_SYNERGIES, 100 - TAX_RATE, 100)
        - MulDiv(MulDiv(d.nvda_total_debt + d.lscc_total_debt, INTEREST_RATE, 100),
                 100 - TAX_RATE, 100)
\* "pro_forma_net_income = nvda['net_income'] + lscc['net_income']
\*  + annual_synergies * (1 - TAX_RATE)"
ProFormaNetIncome(d) ==
    d.nvda_net_income + d.lscc_net_income
        + MulDiv(ANNUAL_SYNERGIES, 100 - TAX_RATE, 100)
\* Mutant of ProFormaDebt: the purchase is financed with new debt.
ProFormaDebtWithPurchase(d) ==
    d.nvda_total_debt + d.lscc_total_debt
        + TransactionValue(d.lscc_current_price, d.lscc_shares)
\* "pro_forma_debt = nvda['total_debt'] + lscc['total_debt']"
ProFormaDebt(d) == d.nvda_total_debt + d.lscc_total_debt

\* Mutant of ProFormaEquity: the price paid is taken out and no goodwill
\* is booked.
ProFormaEquityLessPrice(acquirer_equity, transaction_value, goodwill) ==
    acquirer_equity - transaction_value
\* "pro_forma_equity = nvda['stockholders_equity'] - transaction_value + goodwill"
ProFormaEquity(acquirer_equity, transaction_value, goodwill) ==
    acquirer_equity - transaction_value + goodwill

HgLocals(d) ==
    LET offer_price == OfferPrice(d.lscc_current_price)
        transaction_value == TransactionValue(d.lscc_current_price, d.lscc_shares)
        nvda_ebitda == NvdaEbitda(d)
        lscc_ebitda == LsccEbitda(d)
        pro_forma_net_income == ProFormaNetIncome(d)
        pro_forma_ebitda == nvda_ebitda + lscc_ebitda + ANNUAL_SYNERGIES
        pro_forma_debt == ProFormaDebt(d)
        pro_forma_cash == d.nvda_cash + d.lscc_cash - transaction_value
        goodwill == Goodwill(transaction_value, d.lscc_equity)
        pro_forma_equity == ProFormaEquity(d.nvda_equity, transaction_value, goodwill)
        pro_forma_interest ==
            MulDiv(d.nvda_total_debt, INTEREST_RATE, 100)
                + MulDiv(d.lscc_total_debt, INTEREST_RATE, 100)
        total_capitalization_book == pro_forma_debt + pro_forma_equity
        total_capitalization_market == pro_forma_debt + d.nvda_market_cap
        pro_forma_net_debt == pro_forma_debt - pro_forma_cash
    IN [ offer_price |-> offer_price,
         transaction_value |-> transaction_value,
         nvda_ebitda |-> nvda_ebitda,
         lscc_ebitda |-> lscc_ebitda,
         pro_forma_net_income |-> pro_forma_net_income,
         pro_forma_ebitda |-> pro_forma_ebitda,
         pro_forma_debt |-> pro_forma_debt,
         pro_forma_cash |-> pro_forma_cash,
         goodwill |-> goodwill,
         pro_forma_equity |-> pro_forma_equity,
         pro_forma_interest |-> pro_forma_interest,
         pro_forma_pe
         |-> QuotientIfPositive(d.nvda_market_cap, pro_forma_net_income),
         pro_forma_debt_ebitda
         |-> QuotientIfPositive(pro_forma_debt, pro_forma_ebitda),
         pro_forma_ebitda_interest
         |-> QuotientIfPositive(pro_forma_ebitda, pro_forma_interest),
         pro_forma_debt_cap_book
         |-> QuotientIfPositive(pro_forma_debt * 100, total_capitalization_book),
         pro_forma_debt_cap_market
         |-> QuotientIfPositive(pro_forma_debt * 100, total_capitalization_market),
         pro_forma_net_debt_cap
         |-> QuotientIfPositive(pro_forma_net_debt * 100, total_capitalization_book) ]

\* The dictionary calculate_has_gets_metrics returns.
HasGetsMetrics(d) ==
    LET v == HgLocals(d) IN
    [ seller_gets |->
        [ share_price |-> v.offer_price,
          pe_ratio |-> None,
          total_consideration |-> v.transaction_value ],
      buyer_gets |->
        [ share_price |-> d.nvda_current_price,
          pe_ratio |-> v.pro_forma_pe,
          debt_ebitda |-> v.pro_forma_debt_ebitda,
          ebitda_interest |-> v.pro_forma_ebitda_interest,
          debt_capitalization |-> v.pro_forma_debt_cap_book,
          net_debt_capitalization |-> v.pro_forma_net_debt_cap,
          debt |-> v.pro_forma_debt,
          equity |-> v.pro_forma_equity,
          market_cap |-> d.nvda_market_cap ],
      transaction |->
        [ offer_price |-> v.offer_price,
          premium_pct |-> PREMIUM_PCT,
          transaction_value |-> v.transaction_value,
          goodwill |-> v.goodwill ] ]

\* format_for_table(value, 'ratio' or 'percent'): "{value:.2f}", the quotient
\* rounded to hundredths
format_for_table(value) ==
    IF ~value.def THEN [na |-> TRUE, hundredths |-> 0]
    ELSE [na |-> FALSE,
          hundredths |-> (MulDiv(value.val.num, 200, value.val.den) + 1) \div 2]
\* An Optional quotient as a Python condition: None and 0.0 are false.
TruthyQuotient(value) == value.def /\ value.val.num # 0
\* "format_for_table(x, 'ratio') if x else 'N/A'"
TableCell(value) ==
    IF TruthyQuotient(value) THEN format_for_table(value)
    ELSE [na |-> TRUE, hundredths |-> 0]
\* The ratio cells of the "Buyer Gets" column (update_has_gets_table.py lines
\* 139-168)
BuyerGetsCells(b) ==
    [ pe_ratio |-> TableCell(b.pe_ratio),
      debt_ebitda |-> TableCell(b.debt_ebitda),
      ebitda_interest |-> TableCell(b.ebitda_interest),
      debt_capitalization |-> TableCell(b.debt_capitalization),
      net_debt_capitalization |-> TableCell(b.net_debt_capitalization) ]

\* master_financials.json and market_data.json, as loaded.
HgInputs ==
    [ nvda_net_income : {-20000, -8732, 7288000},
      nvda_operating_income : {-278342, 8145300},
      nvda_revenue : {13049700},
      nvda_ebitda : {None, Some(8600000)},
      nvda_total_debt : {0, 846300},
      nvda_equity : {7932700},
      nvda_current_price : {18000},
      nvda_market_cap : {450000000},
      nvda_cash : {1000, 4321000},
      lscc_net_income : {-1000, 6100},
      lscc_operating_income : {-6000, 3500},
      lscc_revenue : {50940},
      lscc_ebitda : {None, Some(7777)},
      lscc_total_debt : {0, 1500},
      lscc_equity : {71000, 2000000},
      lscc_shares : {0, 137, 300},
      lscc_current_price : {1000, 6850},
      lscc_cash : {13600} ]

InitHasGets ==
    /\ hg_in \in HgInputs
    /\ hg_locals = None
    /\ hg_result = None
    /\ hg_table = None
    /\ hg_pc = "start"
    /\ IrrIdle /\ SwIdle /\ TvIdle /\ PjIdle /\ CfIdle /\ AoIdle

\* lines 68-275: calculate_has_gets_metrics()
CalculateHasGetsMetrics ==
    /\ hg_pc = "start"
    /\ hg_locals' = HgLocals(hg_in)
    /\ hg_result' = HasGetsMetrics(hg_in)
    /\ hg_pc' = "returned"
    /\ UNCHANGED <<hg_in, hg_table>>
    /\ UNCHANGED <<irrVars, swVars, tvVars, pjVars, cfVars, aoVars>>

\* lines 280-283: the script reports "Calculation complete!" and ends
HasGetsComplete ==
    /\ hg_pc = "returned"
    /\ hg_pc' = "exit"
    /\ UNCHANGED <<hg_in, hg_locals, hg_result, hg_table>>
    /\ UNCHANGED <<irrVars, swVars, tvVars, pjVars, cfVars, aoVars>>

\* update_has_gets_table.py, update_has_gets_csv(): the caller is the table
\* script, which formats the ratios returned into the "Buyer Gets" column
UpdateHasGetsCsv ==
    /\ hg_pc = "returned"
    /\ hg_table' = Some(BuyerGetsCells(hg_result.buyer_gets))
    /\ hg_pc' = "table"
    /\ UNCHANGED <<hg_in, hg_locals, hg_result>>
    /\ UNCHANGED <<irrVars, swVars, tvVars, pjVars, cfVars, aoVars>>

NextHasGets == CalculateHasGetsMetrics \/ HasGetsComplete \/ UpdateHasGetsCsv
SpecHasGets == InitHasGets /\ [][NextHasGets]_vars

\* C4: the goodwill returned equals transaction_value minus the target's
\* stockholders_equity for every input; it is negative, not clamped to zero,
\* when the target's book equity exceeds the transaction value.
C4_GoodwillExact ==
    hg_pc \in {"returned", "exit", "table"} =>
        /\ hg_result.transaction.goodwill
             = hg_result.transaction.transaction_value - hg_in.lscc_equity
        /\ hg_in.lscc_equity > hg_result.transaction.transaction_value
             => hg_result.transaction.goodwill < 0
C4_Witness ==
    /\ hg_pc = "returned"
    /\ hg_in.lscc_equity > hg_result.transaction.transaction_value
    /\ hg_result.transaction.transaction_value > 0
    /\ hg_result.transaction.goodwill < 0

----------------------------------------------------------------------------
(* calculate_irr_sensitivity (scripts/calculate_irr_sensitivity.py)         *)
(* Money in units of $10,000 as above; a synergy multiplier, a growth rate *)
(* and a probability in hundredths.  calculate_irr is applied to a stream  *)
(* in these units, so its NPV tolerance is taken in the unit of the stream *)
(* and an IRR comes out rounded down to a whole percent.                   *)

HOLDING_PERIOD == 7
TERMINAL_MULTIPLE == 20
\* "base_growth = (1.03) ** (year - 1)", "synergy_growth = (1.05) ** (year - 1)"
BASE_GROWTH_PCT == 3
SYNERGY_GROWTH_PCT == 5
\* "npv = sum(cf / (1.10) ** i ...)"
NPV_RATE == 10
\* "lscc_free_cash_flow = 23_000_000"
LSCC_FREE_CASH_FLOW == 2300
\* "base_synergies = 123_200_000"
BASE_SYNERGIES == 12320
\* "target_irr = 0.10", in hundredths
TARGET_IRR == 10

\* x * (1 + pct / 100) ** years, rounded down to the unit year by year
RECURSIVE Growth(_, _, _)
Growth(x, pct, years) ==
    IF years = 0 THEN x ELSE Growth(MulDiv(x, 100 + pct, 100), pct, years - 1)

\* "after_tax_synergies = annual_synergies * (1 - TAX_RATE)"
AfterTax(annual_synergies) == MulDiv(annual_synergies, 100 - TAX_RATE, 100)
\* Mutant of CashFlowYear: the synergies are subtracted.
CashFlowYearLessSynergies(fcf, after_tax_synergies, year) ==
    Growth(fcf, BASE_GROWTH_PCT, year - 1)
        - Growth(after_tax_synergies, SYNERGY_GROWTH_PCT, year - 1)
\* "cf_year = (lscc_free_cash_flow * base_growth) + (after_tax_synergies * synergy_growth)"
CashFlowYear(fcf, after_tax_synergies, year) ==
    Growth(fcf, BASE_GROWTH_PCT, year - 1)
        + Growth(after_tax_synergies, SYNERGY_GROWTH_PCT, year - 1)
\* "terminal_value = terminal_ebitda * TERMINAL_MULTIPLE"
TerminalValue(ebitda, annual_synergies) ==
    (ebitda + Growth(annual_synergies, SYNERGY_GROWTH_PCT, HOLDING_PERIOD - 1))
        * TERMINAL_MULTIPLE
\* The stream [-transaction_value, cf_1, ..., cf_7 + terminal_value].
CashFlows(transaction_value, fcf, annual_synergies, ebitda) ==
    <<-transaction_value>> \o
    [year \in 1..HOLDING_PERIOD |->
        CashFlowYear(fcf, AfterTax(annual_synergies), year)
            + (IF year = HOLDING_PERIOD
               THEN TerminalValue(ebitda, annual_synergies) ELSE 0)]

\* "irr / 100": a percentage as a rate in hundredths
AsRate(percent) == percent \div PERCENT

\* synergy_scenarios, in dictionary order
synergy_scenarios ==
    << [name |-> "Pessimistic (50%)", multiplier |-> 50],
       [name |-> "Base Case (75%)", multiplier |-> 75],
       [name |-> "Base (100%)", multiplier |-> 100],
       [name |-> "Optimistic (125%)", multiplier |-> 125],
       [name |-> "Bull Case (150%)", multiplier |-> 150],
       [name |-> "Very Bull (200%)", multiplier |-> 200] >>
\* probabilities
probabilities ==
    "Pessimistic (50%)" :> 10 @@ "Base Case (75%)" :> 20 @@ "Base (100%)" :> 35
        @@ "Optimistic (125%)" :> 20 @@ "Bull Case (150%)" :> 10
        @@ "Very Bull (200%)" :> 5
\* "probabilities.get(result['scenario'], 0)"
Probability(name) ==
    IF name \in DOMAIN probabilities THEN probabilities[name] ELSE 0
\* "for test_mult in [0.3, 0.4, 0.5, 0.6, 0.7, 0.8, 0.9, 1.0]"
test_multipliers == <<30, 40, 50, 60, 70, 80, 90, 100>>

\* "transaction_value = offer_price * lscc_shares"
SweepTransactionValue(d) == TransactionValue(d.lscc_current_price, d.lscc_shares)
\* "lscc_ebitda = lscc_operating_income + (lscc_revenue * 0.03)"
SweepEbitda(d) == d.lscc_operating_income + MulDiv(d.lscc_revenue, 3, 100)

\* The stream built for a synergy multiplier (lines 129-151 and 179-192).
SweepCashFlows(d, multiplier) ==
    CashFlows(SweepTransactionValue(d), LSCC_FREE_CASH_FLOW,
              MulDiv(BASE_SYNERGIES, multiplier, 100), SweepEbitda(d))

\* Mutant of ScenarioResult: the NPV is discounted at the solved IRR.
ScenarioResultNpvAtIrr(d, i) ==
    LET flows == SweepCashFlows(d, synergy_scenarios[i].multiplier)
        solved == calculate_irr(flows)
    IN  [ scenario |-> synergy_scenarios[i].name,
          synergy_multiplier |-> synergy_scenarios[i].multiplier,
          annual_synergies
              |-> MulDiv(BASE_SYNERGIES, synergy_scenarios[i].multiplier, 100),
          irr |-> solved,
          npv |-> NpvNum(flows, IF solved.def THEN AsRate(solved.val) ELSE NPV_RATE) ]
\* The entry appended to results for scenario i (lines 129-165); npv is the
\* numerator of the exact fraction over (100 + NPV_RATE) ^ HOLDING_PERIOD.
ScenarioResult(d, i) ==
    LET flows == SweepCashFlows(d, synergy_scenarios[i].multiplier)
    IN  [ scenario |-> synergy_scenarios[i].name,
          synergy_multiplier |-> synergy_scenarios[i].multiplier,
          annual_synergies
              |-> MulDiv(BASE_SYNERGIES, synergy_scenarios[i].multiplier, 100),
          irr |-> calculate_irr(flows),
          npv |-> NpvNum(flows, NPV_RATE) ]

\* Mutant of Achieves: the comparison with the target is left out.
AchievesAny(an_irr, target) == Truthy(an_irr)
\* "if irr and irr/100 >= target_irr"
Achieves(an_irr, target) == Truthy(an_irr) /\ AsRate(an_irr.val) >= target

\* "for result in results: ... if result['irr']: expected_irr += prob * (result['irr'] / 100)"
RECURSIVE ExpectedIrrFrom(_, _, _)
ExpectedIrrFrom(rs, k, acc) ==
    IF k > Len(rs) THEN acc
    ELSE ExpectedIrrFrom(rs, k + 1,
             IF Truthy(rs[k].irr)
             THEN acc + Probability(rs[k].scenario) * AsRate(rs[k].irr.val)
             ELSE acc)
RECURSIVE DefinedWeightFrom(_, _, _)
DefinedWeightFrom(rs, k, acc) ==
    IF k > Len(rs) THEN acc
    ELSE DefinedWeightFrom(rs, k + 1,
             IF Truthy(rs[k].irr) THEN acc + Probability(rs[k].scenario) ELSE acc)
\* Mutant of ExpectedIrr: the sum is divided by the weight of the scenarios
\* that have an IRR.
ExpectedIrrRenormalised(rs) ==
    IF DefinedWeightFrom(rs, 1, 0) = 0 THEN 0
    ELSE (ExpectedIrrFrom(rs, 1, 0) * 100) \div DefinedWeightFrom(rs, 1, 0)
ExpectedIrr(rs) == ExpectedIrrFrom(rs, 1, 0)

\* "irr_str = f"{irr:.1f}%" if irr else "N/A"": the text is N/A, or the
\* percentage to one decimal (tenths of a percent)
IrrStr(an_irr) ==
    IF Truthy(an_irr)
    THEN [na |-> FALSE, tenths |-> (an_irr.val * 10) \div RateScale]
    ELSE [na |-> TRUE, tenths |-> 0]

\* master_financials.json and market_data.json, as loaded.
SweepData ==
    [ lscc_current_price : {1000, 6850},
      lscc_shares : {0, 1, 100, 150, 300},
      lscc_revenue : {50940},
      lscc_operating_income : {-6000, 3500} ]

InitSweep ==
    /\ sw_in \in SweepData
    /\ results = <<>>
    /\ printed = <<>>
    /\ test_index = 1
    /\ break_even = None
    /\ expected_irr = 0
    /\ sw_pc = "sweep"
    /\ IrrIdle /\ HgIdle /\ TvIdle /\ PjIdle /\ CfIdle /\ AoIdle

\* lines 128-168: one scenario of the sweep
SweepScenario ==
    /\ sw_pc = "sweep"
    /\ results' = Append(results, ScenarioResult(sw_in, Len(results) + 1))
    /\ printed' = Append(printed, IrrStr(ScenarioResult(sw_in, Len(results) + 1).irr))
    /\ sw_pc' = IF Len(results) + 1 = Len(synergy_scenarios)
                THEN "break_even" ELSE "sweep"
    /\ UNCHANGED <<sw_in, test_index, break_even, expected_irr>>
    /\ UNCHANGED <<irrVars, hgVars, tvVars, pjVars, cfVars, aoVars>>

\* lines 128-168 hold no try: a statement of a scenario that raises unwinds
\* calculate_irr_sensitivity
SweepScenarioRaises ==
    /\ sw_pc = "sweep"
    /\ sw_pc' = "raised"
    /\ UNCHANGED <<sw_in, results, printed, test_index, break_even, expected_irr>>
    /\ UNCHANGED <<irrVars, hgVars, tvVars, pjVars, cfVars, aoVars>>

\* lines 178-197: one multiplier of the break-even scan
BreakEvenTest ==
    /\ sw_pc = "break_even"
    /\ IF Achieves(calculate_irr(SweepCashFlows(sw_in, test_multipliers[test_index])),
                   TARGET_IRR)
       THEN /\ break_even' = Some(test_multipliers[test_index])
            /\ sw_pc' = "expected"
            /\ UNCHANGED test_index
       ELSE /\ break_even' = break_even
            /\ IF test_index = Len(test_multipliers)
               THEN sw_pc' = "expected" /\ UNCHANGED test_index
               ELSE sw_pc' = "break_even" /\ test_index' = test_index + 1
    /\ UNCHANGED <<sw_in, results, printed, expected_irr>>
    /\ UNCHANGED <<irrVars, hgVars, tvVars, pjVars, cfVars, aoVars>>

\* lines 216-222: the probability-weighted expected IRR
ExpectedIrrStep ==
    /\ sw_pc = "expected"
    /\ expected_irr' = ExpectedIrr(results)
    /\ sw_pc' = "return"
    /\ UNCHANGED <<sw_in, results, printed, test_index, break_even>>
    /\ UNCHANGED <<irrVars, hgVars, tvVars, pjVars, cfVars, aoVars>>

\* line 229: "return results"
SweepReturn ==
    /\ sw_pc = "return"
    /\ sw_pc' = "returned"
    /\ UNCHANGED <<sw_in, results, printed, test_index, break_even, expected_irr>>
    /\ UNCHANGED <<irrVars, hgVars, tvVars, pjVars, cfVars, aoVars>>

\* lines 234-237: "Analysis complete!"
MainComplete ==
    /\ sw_pc = "returned"
    /\ sw_pc' = "exit0"
    /\ UNCHANGED <<sw_in, results, printed, test_index, break_even, expected_irr>>
    /\ UNCHANGED <<irrVars, hgVars, tvVars, pjVars, cfVars, aoVars>>

\* lines 238-242: "except Exception ... sys.exit(1)"
MainCatch ==
    /\ sw_pc = "raised"
    /\ sw_pc' = "exit1"
    /\ UNCHANGED <<sw_in, results, printed, test_index, break_even, expected_irr>>
    /\ UNCHANGED <<irrVars, hgVars, tvVars, pjVars, cfVars, aoVars>>

NextSweep ==
    \/ SweepScenario \/ SweepScenarioRaises \/ BreakEvenTest
    \/ ExpectedIrrStep \/ SweepReturn \/ MainComplete \/ MainCatch
SpecSweep == InitSweep /\ [][NextSweep]_vars

\* The sweep and the steps after it have run to the end of the function.
SweepFinished == sw_pc \in {"return", "returned", "exit0"}
\* probability[s] * irr[s] of entry i of results, 0 for an undefined IRR
WeightedIrr(i) ==
    IF results[i].irr.def
    THEN probabilities[results[i].scenario] * (results[i].irr.val \div 100)
    ELSE 0
\* probability[s] of entry i of results, 0 for an undefined IRR
DefinedWeight(i) ==
    IF results[i].irr.def THEN probabilities[results[i].scenario] ELSE 0

\* C5: the expected IRR is the sum, over the scenarios whose IRR is defined,
\* of probability * irr (as a rate); a scenario whose IRR is None adds
\* nothing, and the sum is not divided by the weight of the others.
C5_ExpectedIrrIsPlainSum ==
    SweepFinished =>
        /\ Len(results) = 6
        /\ expected_irr = WeightedIrr(1) + WeightedIrr(2) + WeightedIrr(3)
                            + WeightedIrr(4) + WeightedIrr(5) + WeightedIrr(6)
C5_Witness ==
    /\ sw_pc = "returned"
    /\ \E i \in 1..Len(results) : ~results[i].irr.def
    /\ \E i \in 1..Len(results) : results[i].irr.def /\ results[i].irr.val > 0
    /\ expected_irr > 0

\* C6: the expected IRR is the probability-weighted mean of the defined
\* IRRs only: the weighted sum of the defined IRRs over the sum of their
\* probabilities, as if a scenario with no IRR had been left out.
C6_ExpectedIrrIsWeightedMean ==
    (SweepFinished /\ \E i \in 1..Len(results) : results[i].irr.def) =>
        expected_irr * (DefinedWeight(1) + DefinedWeight(2) + DefinedWeight(3)
                          + DefinedWeight(4) + DefinedWeight(5) + DefinedWeight(6))
          = 100 * (WeightedIrr(1) + WeightedIrr(2) + WeightedIrr(3)
                     + WeightedIrr(4) + WeightedIrr(5) + WeightedIrr(6))

ReachesTarget(multiplier) ==
    LET solved == calculate_irr(SweepCashFlows(sw_in, multiplier))
    IN  solved.def /\ solved.val # 0 /\ solved.val >= TARGET_IRR * PERCENT
BreakEvenDone == sw_pc \in {"expected", "return", "returned", "exit0"}
\* multipliers 0.1, 0.2, ..., 2.0
MultiplierRange == {10 * k : k \in 1..20}

----------------------------------------------------------------------------
(* find_transaction_value_for_irr (scripts/create_irr_sensitivity_table.py) *)
(* A transaction value in units of $10,000: a midpoint of the bracket is   *)
(* rounded down to the unit.  target_irr is a rate in hundredths.          *)

\* "low, high = 1e9, 50e9"
TV_LOW == 100000
TV_HIGH == 5000000
\* "for _ in range(100)"
TV_ITERATIONS == 100
\* "abs(irr/100 - target_irr) < 0.001": 0.001 = 1 / TARGET_TOLERANCE_INV
TARGET_TOLERANCE_INV == 1000

Abs(x) == IF x < 0 THEN -x ELSE x

\* The stream built for a trial value (lines 64-75).
TvCashFlows(args, test_value) ==
    CashFlows(test_value, args.lscc_fcf, args.annual_synergies, args.lscc_ebitda)
\* "irr = calculate_irr(cash_flows)" for a trial value
TvIrr(args, test_value) == calculate_irr(TvCashFlows(args, test_value))
\* "abs(irr/100 - target_irr) < 0.001" for an IRR that is a number
WithinTarget(an_irr, target) ==
    Abs(an_irr.val - target * PERCENT) * TARGET_TOLERANCE_INV < PERCENT * RateScale

\* The arguments: the calls of main() (target 0.10, the six synergy levels)
\* and a call with a target of 550% on synergies of $340B.
TvArguments ==
    [ target_irr : {TARGET_IRR},
      annual_synergies :
          {MulDiv(BASE_SYNERGIES, synergy_scenarios[i].multiplier, 100) :
              i \in 1..Len(synergy_scenarios)},
      lscc_fcf : {LSCC_FREE_CASH_FLOW},
      lscc_ebitda : {5028} ]
    \cup
    [ target_irr : {550},
      annual_synergies : {34000000},
      lscc_fcf : {LSCC_FREE_CASH_FLOW},
      lscc_ebitda : {5028} ]

InitFindTv ==
    /\ tv_in \in TvArguments
    /\ tv_low = TV_LOW
    /\ tv_high = TV_HIGH
    /\ tv_iter = 0
    /\ tv_result = None
    /\ tv_pc = "loop"
    /\ IrrIdle /\ HgIdle /\ SwIdle /\ PjIdle /\ CfIdle /\ AoIdle

\* lines 61-89: one iteration of the search
TvIterate ==
    /\ tv_pc = "loop"
    /\ tv_iter < TV_ITERATIONS
    /\ tv_iter' = tv_iter + 1
    /\ LET test_value == Mid(tv_low, tv_high)
           solved == TvIrr(tv_in, test_value)
       IN  IF solved = None
           THEN /\ tv_high' = test_value
                /\ UNCHANGED <<tv_low, tv_result, tv_pc>>
           ELSE IF WithinTarget(solved, tv_in.target_irr)
           THEN /\ tv_result' = Some(test_value)
                /\ tv_pc' = "done"
                /\ UNCHANGED <<tv_low, tv_high>>
           ELSE IF AsRate(solved.val) < tv_in.target_irr
           THEN /\ tv_high' = test_value
                /\ UNCHANGED <<tv_low, tv_result, tv_pc>>
           ELSE /\ tv_low' = test_value
                /\ UNCHANGED <<tv_high, tv_result, tv_pc>>
    /\ UNCHANGED tv_in
    /\ UNCHANGED <<irrVars, hgVars, swVars, pjVars, cfVars, aoVars>>

\* line 91: "return (low + high) / 2"
TvExhausted ==
    /\ tv_pc = "loop"
    /\ tv_iter = TV_ITERATIONS
    /\ tv_result' = Some(Mid(tv_low, tv_high))
    /\ tv_pc' = "done"
    /\ UNCHANGED <<tv_in, tv_low, tv_high, tv_iter>>
    /\ UNCHANGED <<irrVars, hgVars, swVars, pjVars, cfVars, aoVars>>

NextFindTv == TvIterate \/ TvExhausted
SpecFindTv == InitFindTv /\ [][NextFindTv]_vars

\* The IRR of the stream for transaction value v is a number within 0.001
\* of target_irr.
HitsTarget(v) ==
    LET solved == TvIrr(tv_in, v)
    IN  solved.def /\ WithinTarget(solved, tv_in.target_irr)
\* transaction values across the bracket, $50M apart
TvCandidates == {TV_LOW + 5000 * k : k \in 0..((TV_HIGH - TV_LOW) \div 5000)}

\* C8: whenever some transaction value inside the bracket has an IRR equal
\* to target_irr, the value returned has an IRR within 0.001 of target_irr,
\* also when calculate_irr returned None for a trial value on the way.
C8_FindsTargetValue ==
    (tv_pc = "done" /\ \E v \in TvCandidates : HitsTarget(v)) =>
        HitsTarget(tv_result.val)

----------------------------------------------------------------------------
(* calculate_irr on arbitrary lists, and the sweep that calls it           *)

InitSolverAndSweep == InitIrr \/ InitSweep
NextSolverAndSweep == NextIrr \/ NextSweep
SpecSolverAndSweep == InitSolverAndSweep /\ [][NextSolverAndSweep]_vars

\* calculate_irr has returned for a stream that made npv raise or whose NPV
\* is positive at the ceiling.
FaultedOrOverCeiling ==
    /\ pc = "done"
    /\ IF \E i \in 1..Len(cash_flows) : cash_flows[i] = NonNumeric
       THEN TRUE
       ELSE NpvSign(cash_flows, HIGH) > 0
\* The step appends the result of a scenario whose IRR is None.
AppendsAbsentIrr ==
    /\ sw_pc = "sweep"
    /\ Len(results') = Len(results) + 1
    /\ ~results'[Len(results')].irr.def

----------------------------------------------------------------------------
(* The projection of the stream                                            *)

\* The stream of entry i of results, built again from the loaded data.
StreamOf(i) == SweepCashFlows(sw_in, results[i].synergy_multiplier)

\* C12: all else fixed, a scenario with larger annual synergies has a
\* strictly larger cash flow in every projected year 1..N, and its IRR is
\* not below the IRR of the scenario with smaller synergies when both IRRs
\* are defined.
C12_SynergiesMonotone ==
    \A i, j \in 1..Len(results) :
        results[i].annual_synergies < results[j].annual_synergies =>
            /\ \A year \in 1..HOLDING_PERIOD :
                  StreamOf(j)[year + 1] > StreamOf(i)[year + 1]
            /\ (results[i].irr.def /\ results[j].irr.def)
                  => results[j].irr.val >= results[i].irr.val
C12_Witness ==
    /\ Len(results) = Len(synergy_scenarios)
    /\ results[1].irr.def /\ results[6].irr.def
    /\ results[1].annual_synergies < results[6].annual_synergies
    /\ results[6].irr.val > results[1].irr.val

\* cf_i / 1.10^i over the common denominator 110^N: cf_i * 100^i * 110^(N-i)
DiscountedTerm(flows, i) ==
    LET scaled == BigScalePow(BigOf(flows[i + 1]), 100, i)
    IN  IF Evaluated(scaled)
        THEN BigScalePow(scaled, 110, Len(flows) - 1 - i) ELSE scaled
RECURSIVE DiscountedSumFrom(_, _, _)
DiscountedSumFrom(flows, i, acc) ==
    LET term == DiscountedTerm(flows, i)
        sum == BigAdd(acc, term)
    IN  CASE i > Len(flows) - 1 -> acc
          [] Evaluated(acc) /\ Evaluated(term) /\ Evaluated(sum) ->
               DiscountedSumFrom(flows, i + 1, sum)
DiscountedSum(flows) == DiscountedSumFrom(flows, 0, BigOf(0))

\* C13: the sweep produces one record per scenario, in the order of the
\* scenarios; its annual_synergies is base_synergies times the scenario's
\* multiplier and its NPV is the stream discounted at 10%, whatever the IRR
\* solved, None included.
C13_OneRecordPerScenario ==
    /\ Len(results) <= Len(synergy_scenarios)
    /\ SweepFinished => Len(results) = Len(synergy_scenarios)
    /\ \A k \in 1..Len(results) :
          /\ results[k].scenario = synergy_scenarios[k].name
          /\ results[k].synergy_multiplier = synergy_scenarios[k].multiplier
          /\ results[k].annual_synergies * 100
               = 12320 * synergy_scenarios[k].multiplier
          /\ results[k].npv = DiscountedSum(StreamOf(k))
C13_Witness ==
    /\ sw_pc = "returned"
    /\ Len(results) = 6
    /\ \E k \in 1..6 : ~results[k].irr.def
    /\ \E k \in 1..6 : results[k].irr.def /\ results[k].irr.val # 1000

\* ---------------------------------------------------------------------------
\* Building one stream, statement by statement
\* (calculate_irr_sensitivity.py lines 135-151, and the same statements in
\* create_irr_sensitivity_table.py lines 64-75), for any holding period
\* ---------------------------------------------------------------------------

\* "(1.05) ** (years)" applied to x: the exponent is -1 when the holding
\* period is 0
GrowthOver(x, pct, years) ==
    IF years < 0 THEN MulDiv(x, 100, 100 + pct) ELSE Growth(x, pct, years)
\* Mutant of TerminalValueFor: the synergies of the terminal year after tax.
TerminalValueForAfterTax(ebitda, annual_synergies, holding_period) ==
    (ebitda + GrowthOver(AfterTax(annual_synergies), SYNERGY_GROWTH_PCT,
                         holding_period - 1)) * TERMINAL_MULTIPLE
\* "final_year_growth = (1.05) ** (HOLDING_PERIOD - 1)
\*  terminal_ebitda = lscc_ebitda + (annual_synergies * final_year_growth)
\*  terminal_value = terminal_ebitda * TERMINAL_MULTIPLE"
TerminalValueFor(ebitda, annual_synergies, holding_period) ==
    (ebitda + GrowthOver(annual_synergies, SYNERGY_GROWTH_PCT,
                         holding_period - 1)) * TERMINAL_MULTIPLE
\* Mutant of NewStream: the list of the construction before is kept.
NewStreamKept(bound_before, transaction_value) ==
    bound_before \o <<-transaction_value>>
\* "cash_flows = [-transaction_value]": the name is bound to a new list,
\* whatever it was bound to before
NewStream(bound_before, transaction_value) == <<-transaction_value>>
\* "cash_flows[-1] += terminal_value"
AddToLast(flows, amount) == [flows EXCEPT ![Len(flows)] = @ + amount]

\* The arguments of the constructions
HoldingPeriods == {0, 1, HOLDING_PERIOD}
PjInputs ==
    [transaction_value : {1300, 195000},
     fcf : {LSCC_FREE_CASH_FLOW},
     annual_synergies : {6160, BASE_SYNERGIES},
     ebitda : {-4472, 5028},
     holding_period : HoldingPeriods]

InitProject ==
    /\ pj_in \in PjInputs
    /\ pj_flows = <<>>
    /\ pj_year = 0
    /\ pj_earlier = None
    /\ pj_pc = "start"
    /\ IrrIdle /\ HgIdle /\ SwIdle /\ TvIdle /\ CfIdle /\ AoIdle

\* lines 135-136
ProjectStart ==
    /\ pj_pc = "start"
    /\ pj_flows' = NewStream(pj_flows, pj_in.transaction_value)
    /\ pj_year' = 1
    /\ pj_pc' = "years"
    /\ UNCHANGED <<pj_in, pj_earlier>>
    /\ UNCHANGED <<irrVars, hgVars, swVars, tvVars, cfVars, aoVars>>

\* lines 139-144: one turn of "for year in range(1, HOLDING_PERIOD + 1)"
ProjectYear ==
    /\ pj_pc = "years"
    /\ pj_year <= pj_in.holding_period
    /\ pj_flows' = Append(pj_flows,
                          CashFlowYear(pj_in.fcf, AfterTax(pj_in.annual_synergies),
                                       pj_year))
    /\ pj_year' = pj_year + 1
    /\ UNCHANGED <<pj_in, pj_earlier, pj_pc>>
    /\ UNCHANGED <<irrVars, hgVars, swVars, tvVars, cfVars, aoVars>>

\* lines 148-151, after the loop
ProjectTerminal ==
    /\ pj_pc = "years"
    /\ pj_year > pj_in.holding_period
    /\ pj_flows' = AddToLast(pj_flows,
                             TerminalValueFor(pj_in.ebitda, pj_in.annual_synergies,
                                              pj_in.holding_period))
    /\ pj_pc' = "done"
    /\ UNCHANGED <<pj_in, pj_year, pj_earlier>>
    /\ UNCHANGED <<irrVars, hgVars, swVars, tvVars, cfVars, aoVars>>

\* The next turn of the loop over the scenarios (line 128), or the next call
\* of find_transaction_value_for_irr: the same statements run again on new
\* arguments, with the name "cash_flows" still bound to the list built before.
ProjectAgain ==
    /\ pj_pc = "done"
    /\ ~pj_earlier.def
    /\ pj_earlier' = Some([args |-> pj_in, flows |-> pj_flows])
    /\ pj_in' \in PjInputs
    /\ pj_pc' = "start"
    /\ UNCHANGED <<pj_flows, pj_year>>
    /\ UNCHANGED <<irrVars, hgVars, swVars, tvVars, cfVars, aoVars>>

NextProject == ProjectStart \/ ProjectYear \/ ProjectTerminal \/ ProjectAgain

SpecProject == InitProject /\ [][NextProject]_vars

ProjectDone == pj_pc = "done"

\* What the roundings of the model can add up to in one entry, in units: each
\* product is rounded down by less than a unit, and the terminal value
\* multiplies its roundings by TERMINAL_MULTIPLE.
RoundingSlack == (HOLDING_PERIOD + 3) * TERMINAL_MULTIPLE

\* 100 ** (N + 1) times the closed form of entry k of a stream of N years:
\*   base * 1.03 ** (k - 1) + synergies * (1 - 0.21) * 1.05 ** (k - 1)
ClosedFormYear(d, k) ==
    BigAdd(BigScalePow(BigScalePow(BigOf(d.fcf), 100 + BASE_GROWTH_PCT, k - 1),
                       100, d.holding_period + 2 - k),
           BigScalePow(BigScalePow(BigOf(d.annual_synergies * (100 - TAX_RATE)),
                                   100 + SYNERGY_GROWTH_PCT, k - 1),
                       100, d.holding_period + 1 - k))
\* 100 ** (N + 1) times (ebitda + synergies * 1.05 ** (N - 1)) * multiple,
\* the synergies before tax
ClosedFormTerminal(d) ==
    BigAdd(BigScalePow(BigOf(d.ebitda * TERMINAL_MULTIPLE), 100,
                       d.holding_period + 1),
           BigScalePow(BigScalePow(BigOf(d.annual_synergies * TERMINAL_MULTIPLE),
                                   100 + SYNERGY_GROWTH_PCT, d.holding_period - 1),
                       100, 2))
ClosedFormEntry(d, k) ==
    IF k = d.holding_period
    THEN BigAdd(ClosedFormYear(d, k), ClosedFormTerminal(d))
    ELSE ClosedFormYear(d, k)
\* |entry - closed form| <= RoundingSlack
MatchesClosedForm(d, flows, k) ==
    LET scale == d.holding_period + 1
        diff == BigAbs(BigSub(BigScalePow(BigOf(flows[k + 1]), 100, scale),
                              ClosedFormEntry(d, k)))
    IN  BigSign(BigSub(BigScalePow(BigOf(RoundingSlack), 100, scale), diff)) >= 0

\* C14: in a finished stream of N >= 1 years every entry k < N is the closed
\* form base * 1.03 ** (k - 1) + synergies * 0.79 * 1.05 ** (k - 1), and entry
\* N is that closed form plus (ebitda + synergies * 1.05 ** (N - 1)) * 20 on
\* the synergies before tax; no other entry carries the terminal value.
C14_EntriesFollowClosedForm ==
    (ProjectDone /\ pj_in.holding_period >= 1) =>
        \A k \in 1..pj_in.holding_period : MatchesClosedForm(pj_in, pj_flows, k)
C14_Witness ==
    /\ ProjectDone
    /\ pj_in.holding_period = HOLDING_PERIOD
    /\ pj_in.annual_synergies = BASE_SYNERGIES
    /\ MatchesClosedForm(pj_in, pj_flows, HOLDING_PERIOD)
    /\ pj_flows[HOLDING_PERIOD + 1] > pj_flows[HOLDING_PERIOD] + RoundingSlack

\* C15: for every holding period N, N = 0 included, a finished stream has
\* N + 1 entries and its entry 0 is minus the transaction value, whatever the
\* yearly cash flows and the terminal value are.
C15_OutlayFirstOfNPlusOne ==
    ProjectDone =>
        /\ Len(pj_flows) = pj_in.holding_period + 1
        /\ pj_flows[1] = -pj_in.transaction_value

\* C16: a finished stream depends on the arguments of its construction alone.
\* Built after another stream in the same run, on the same arguments, it is
\* that stream again; and on the holding period of the scripts it is the
\* stream CashFlows gives for the arguments, whatever was built before.
C16_StreamDependsOnArgumentsOnly ==
    ProjectDone =>
        /\ (pj_earlier.def /\ pj_earlier.val.args = pj_in)
                => pj_flows = pj_earlier.val.flows
        /\ pj_in.holding_period = HOLDING_PERIOD
                => pj_flows = CashFlows(pj_in.transaction_value, pj_in.fcf,
                                        pj_in.annual_synergies, pj_in.ebitda)
C16_Witness ==
    /\ ProjectDone
    /\ pj_earlier.def
    /\ pj_earlier.val.args = pj_in
    /\ pj_in.holding_period = HOLDING_PERIOD
    /\ Len(pj_flows) = HOLDING_PERIOD + 1
C16_WitnessAfterAnother ==
    /\ ProjectDone
    /\ pj_earlier.def
    /\ pj_earlier.val.flows # pj_flows
    /\ pj_in.holding_period = HOLDING_PERIOD

\* ---------------------------------------------------------------------------
\* The transaction value in the four scripts that derive it
\* ---------------------------------------------------------------------------

\* create_irr_sensitivity_table.py, main(): "offer_price = lscc_current_price
\* * (1 + PREMIUM_PCT)", "transaction_value = offer_price * lscc_shares"
TableTransactionValue(d) ==
    MulDiv(d.lscc_current_price, 100 + PREMIUM_PCT, 100) * d.lscc_shares
\* calculate_revenue_synergy_valuation.py, main(): the same two statements
RevenueSynergyTransactionValue(d) ==
    MulDiv(d.lscc_current_price, 100 + PREMIUM_PCT, 100) * d.lscc_shares

\* C17: the offer price returned is the current price times 1.30 and the
\* transaction value is the offer price times the shares outstanding; a price
\* of 10.00 and 300 million shares give 13.00 and 3.9 billion; and the other
\* three scripts derive the same transaction value from the same data.
C17_OfferAndTransactionValue ==
    hg_pc \in {"returned", "exit", "table"} =>
        LET t == hg_result.transaction IN
        /\ t.offer_price * 100 = hg_in.lscc_current_price * (100 + PREMIUM_PCT)
        /\ t.transaction_value = t.offer_price * hg_in.lscc_shares
        /\ hg_result.seller_gets.share_price = t.offer_price
        /\ hg_result.seller_gets.total_consideration = t.transaction_value
        /\ (hg_in.lscc_current_price = 1000 /\ hg_in.lscc_shares = 300)
                => (t.offer_price = 1300 /\ t.transaction_value = 390000)
        /\ SweepTransactionValue(hg_in) = t.transaction_value
        /\ TableTransactionValue(hg_in) = t.transaction_value
        /\ RevenueSynergyTransactionValue(hg_in) = t.transaction_value
C17_Witness ==
    /\ hg_pc = "returned"
    /\ hg_in.lscc_current_price = 1000
    /\ hg_in.lscc_shares = 300
    /\ hg_result.transaction.offer_price = 1300
    /\ hg_result.transaction.transaction_value = 390000

\* ---------------------------------------------------------------------------
\* Pro forma cash
\* ---------------------------------------------------------------------------

\* nvda_market['cash'] + lscc_market['cash'] - transaction_value, from the
\* data and the transaction value returned
CashAfterPurchase ==
    hg_in.nvda_cash + hg_in.lscc_cash - hg_result.transaction.transaction_value
\* The net debt ratio returned is on debt minus that cash, negative or not.
NetDebtOnCashAfterPurchase ==
    LET b == hg_result.buyer_gets IN
    b.net_debt_capitalization.def =>
        /\ b.net_debt_capitalization.val.num = (b.debt - CashAfterPurchase) * 100
        /\ b.net_debt_capitalization.val.den = b.debt + b.equity
\* The names under which a result could carry the figure
CashFields == {"cash", "pro_forma_cash"}
SurfacedInResult(amount) ==
    \E section \in DOMAIN hg_result :
        \E field \in DOMAIN hg_result[section] :
            field \in CashFields /\ hg_result[section][field] = amount

\* C18: the result carries pro forma cash = acquirer cash + target cash -
\* transaction value, negative when the transaction value exceeds the combined
\* cash and never floored at zero, and net_debt_capitalization is computed on
\* debt minus that figure.
C18_ProFormaCashSurfaced ==
    hg_pc \in {"returned", "exit", "table"} =>
        /\ SurfacedInResult(CashAfterPurchase)
        /\ NetDebtOnCashAfterPurchase
\* The part of C18 that the code does satisfy.
C18_NetDebtUsesCashAsIs ==
    hg_pc \in {"returned", "exit", "table"} => NetDebtOnCashAfterPurchase

\* C19: with shares_outstanding of the target zero or negative the
\* consolidation fails: no result is returned and the script does not report
\* completion.
C19_NoResultWithoutShares ==
    hg_in.lscc_shares <= 0 => (hg_result = None /\ hg_pc # "exit")

\* ---------------------------------------------------------------------------
\* The pro forma ratios
\* ---------------------------------------------------------------------------

\* The denominators, from the data
NetIncomeOfData ==
    hg_in.nvda_net_income + hg_in.lscc_net_income
        + (ANNUAL_SYNERGIES * (100 - TAX_RATE)) \div 100
EbitdaOfData ==
    hg_in.nvda_operating_income + (hg_in.nvda_revenue * DA_PCT_NVDA) \div 100
        + hg_in.lscc_operating_income + (hg_in.lscc_revenue * DA_PCT_LSCC) \div 100
        + ANNUAL_SYNERGIES
InterestOfData ==
    (hg_in.nvda_total_debt * INTEREST_RATE) \div 100
        + (hg_in.lscc_total_debt * INTEREST_RATE) \div 100
\* A ratio is None when the denominator is not positive, and the quotient of
\* a positive denominator otherwise: never a number standing for "undefined".
AbsentOrQuotient(ratio, numer, denom) ==
    IF denom <= 0
    THEN ratio = None
    ELSE ratio.def /\ ratio.val.num = numer /\ ratio.val.den = denom

\* C20: in the result, pe_ratio is None iff pro forma net income <= 0 and
\* is market cap / net income otherwise; debt_ebitda is None iff pro forma
\* EBITDA <= 0 and is debt / EBITDA otherwise; ebitda_interest is None iff
\* pro forma interest <= 0 and is EBITDA / interest otherwise.
C20_RatiosAbsentIffUndefined ==
    hg_pc \in {"returned", "exit", "table"} =>
        LET b == hg_result.buyer_gets IN
        /\ AbsentOrQuotient(b.pe_ratio, hg_in.nvda_market_cap, NetIncomeOfData)
        /\ AbsentOrQuotient(b.debt_ebitda,
                            hg_in.nvda_total_debt + hg_in.lscc_total_debt,
                            EbitdaOfData)
        /\ AbsentOrQuotient(b.ebitda_interest, EbitdaOfData, InterestOfData)
C20_Witness ==
    /\ hg_pc = "returned"
    /\ NetIncomeOfData = 0
    /\ EbitdaOfData = 0
    /\ InterestOfData > 0
    /\ hg_result.buyer_gets.pe_ratio = None
    /\ hg_result.buyer_gets.debt_ebitda = None
    /\ hg_result.buyer_gets.ebitda_interest.def
C20_WitnessAllDefined ==
    /\ hg_pc = "returned"
    /\ hg_result.buyer_gets.pe_ratio.def
    /\ hg_result.buyer_gets.debt_ebitda.def
    /\ hg_result.buyer_gets.ebitda_interest.def

\* ---------------------------------------------------------------------------
\* Debt to capitalization, on book equity and on market capitalization
\* ---------------------------------------------------------------------------

DebtOfData == hg_in.nvda_total_debt + hg_in.lscc_total_debt
\* nvda equity - transaction_value + (transaction_value - lscc equity)
BookEquityOfData ==
    hg_in.nvda_equity - hg_result.transaction.transaction_value
        + hg_result.transaction.goodwill
\* The figure on the book denominator is the one returned as
\* debt_capitalization.
BookFigureReturned ==
    AbsentOrQuotient(hg_result.buyer_gets.debt_capitalization,
                     DebtOfData * 100, DebtOfData + BookEquityOfData)
\* The names under which a result could carry the figure on the market
\* denominator
MarketFigureFields ==
    {"debt_capitalization_market", "debt_cap_market", "market_debt_capitalization"}
MarketFigureReturned ==
    \E section \in DOMAIN hg_result :
        \E field \in DOMAIN hg_result[section] :
            /\ field \in MarketFigureFields
            /\ AbsentOrQuotient(hg_result[section][field], DebtOfData * 100,
                                DebtOfData + hg_in.nvda_market_cap)

\* C21: the result returned carries debt to capitalization twice, once on
\* pro forma debt + pro forma book equity and once on pro forma debt + the
\* acquirer's market capitalization, as two separate figures.
C21_BookAndMarketFigures ==
    hg_pc \in {"returned", "exit", "table"} => (BookFigureReturned /\ MarketFigureReturned)
\* The part of C21 that the code does satisfy: debt_capitalization is the
\* book figure, never the market one.
C21_BookFigureOnBookEquity ==
    hg_pc \in {"returned", "exit", "table"} =>
        /\ BookFigureReturned
        /\ hg_result.buyer_gets.debt_capitalization.def
            => hg_result.buyer_gets.debt_capitalization.val.den
                 # DebtOfData + hg_in.nvda_market_cap

\* ---------------------------------------------------------------------------
\* Pro forma equity
\* ---------------------------------------------------------------------------

\* C22: pro forma equity is the acquirer's stockholders_equity minus the
\* transaction value plus goodwill, negative goodwill included; goodwill being
\* the transaction value minus the target's book equity, the figure is the
\* acquirer's equity minus the target's, whatever the price and the shares.
C22_EquityIndependentOfPrice ==
    hg_pc \in {"returned", "exit", "table"} =>
        /\ hg_result.buyer_gets.equity
             = hg_in.nvda_equity - hg_result.transaction.transaction_value
                 + hg_result.transaction.goodwill
        /\ hg_result.buyer_gets.equity = hg_in.nvda_equity - hg_in.lscc_equity
        /\ hg_locals.pro_forma_equity = hg_result.buyer_gets.equity
C22_Witness ==
    /\ hg_pc = "returned"
    /\ hg_result.transaction.goodwill < 0
    /\ hg_result.transaction.transaction_value > 0
    /\ hg_result.buyer_gets.equity = hg_in.nvda_equity - hg_in.lscc_equity

\* ---------------------------------------------------------------------------
\* EBITDA of the entities and pro forma EBITDA
\* ---------------------------------------------------------------------------

\* operating_income + revenue * da_pct, from the data
NvdaEbitdaOfData ==
    hg_in.nvda_operating_income + (hg_in.nvda_revenue * DA_PCT_NVDA) \div 100
LsccEbitdaOfData ==
    hg_in.lscc_operating_income + (hg_in.lscc_revenue * DA_PCT_LSCC) \div 100

\* C23: the EBITDA of each entity is its operating income plus its revenue
\* times its D&A share, with or without an 'ebitda' fact in the data, and pro
\* forma EBITDA is the two together plus the annual synergies before tax; the
\* ratios returned are on that figure.
C23_EbitdaFromFormula ==
    hg_pc \in {"returned", "exit", "table"} =>
        /\ hg_locals.nvda_ebitda = NvdaEbitdaOfData
        /\ hg_locals.lscc_ebitda = LsccEbitdaOfData
        /\ hg_locals.pro_forma_ebitda
             = NvdaEbitdaOfData + LsccEbitdaOfData + ANNUAL_SYNERGIES
        /\ hg_result.buyer_gets.debt_ebitda.def
             => hg_result.buyer_gets.debt_ebitda.val.den
                  = NvdaEbitdaOfData + LsccEbitdaOfData + ANNUAL_SYNERGIES
        /\ hg_result.buyer_gets.ebitda_interest.def
             => hg_result.buyer_gets.ebitda_interest.val.num
                  = NvdaEbitdaOfData + LsccEbitdaOfData + ANNUAL_SYNERGIES
C23_Witness ==
    /\ hg_pc = "returned"
    /\ hg_in.nvda_ebitda.def
    /\ hg_in.lscc_ebitda.def
    /\ hg_in.lscc_ebitda.val # LsccEbitdaOfData
    /\ hg_in.nvda_ebitda.val # NvdaEbitdaOfData
    /\ hg_locals.lscc_ebitda = LsccEbitdaOfData
    /\ hg_result.buyer_gets.debt_ebitda.def
    /\ hg_result.buyer_gets.ebitda_interest.def

\* ---------------------------------------------------------------------------
\* Pro forma net income, debt and interest
\* ---------------------------------------------------------------------------

\* C24: pro forma net income is the two net incomes, negative ones included,
\* plus the annual synergies after tax, and nothing else: it is the same with
\* and without debt, and the P/E returned is on that figure.
C24_NetIncomeIsSumPlusSynergies ==
    hg_pc \in {"returned", "exit", "table"} =>
        /\ hg_locals.pro_forma_net_income = NetIncomeOfData
        /\ hg_result.buyer_gets.pe_ratio.def
             => hg_result.buyer_gets.pe_ratio.val.den = NetIncomeOfData
C24_Witness ==
    /\ hg_pc = "returned"
    /\ hg_in.nvda_net_income < 0
    /\ hg_in.lscc_net_income < 0
    /\ hg_in.nvda_total_debt > 0
    /\ hg_locals.pro_forma_net_income < 0
    /\ hg_locals.pro_forma_net_income = NetIncomeOfData
C24_WitnessPositive ==
    /\ hg_pc = "returned"
    /\ hg_in.lscc_net_income < 0
    /\ hg_in.nvda_total_debt > 0
    /\ hg_result.buyer_gets.pe_ratio.def

\* C25: pro forma debt is the total_debt of the two entities and pro forma
\* interest is INTEREST_RATE on each of them, summed; neither depends on the
\* price, the shares or the transaction value.
C25_DebtAndInterestFromDebtOnly ==
    hg_pc \in {"returned", "exit", "table"} =>
        /\ hg_result.buyer_gets.debt = DebtOfData
        /\ hg_locals.pro_forma_debt = DebtOfData
        /\ hg_locals.pro_forma_interest = InterestOfData
        /\ hg_result.buyer_gets.ebitda_interest.def
             => hg_result.buyer_gets.ebitda_interest.val.den = InterestOfData
C25_Witness ==
    /\ hg_pc = "returned"
    /\ hg_result.transaction.transaction_value > hg_in.nvda_cash + hg_in.lscc_cash
    /\ hg_in.nvda_total_debt > 0
    /\ hg_in.lscc_total_debt > 0
    /\ hg_result.buyer_gets.debt = DebtOfData
    /\ hg_locals.pro_forma_interest = InterestOfData

\* ---------------------------------------------------------------------------
\* Cash flow facts and their estimates
\* (calculate_cash_flow_metrics.py; calculate_irr_sensitivity.py lines 88-91)
\* Amounts are in units of $10,000, as above.
\* ---------------------------------------------------------------------------

Max(a, b) == IF a >= b THEN a ELSE b

\* estimate_operating_cash_flow(net_income, revenue, operating_income, has_ocf)
estimate_operating_cash_flow(net_income, revenue, operating_income, has_ocf) ==
    IF has_ocf.def THEN has_ocf.val
    ELSE LET estimated_da == MulDiv(revenue, 3, 100)
             ocf == IF net_income > 0
                    THEN MulDiv(net_income + estimated_da, 90, 100)
                    ELSE IF operating_income * 10 > -revenue
                         THEN operating_income + estimated_da
                         ELSE Max(operating_income + estimated_da,
                                  MulDiv(revenue, 2, 100))
         IN  Max(ocf, MulDiv(revenue, 2, 100))
\* calculate_free_cash_flow(operating_cash_flow, revenue, has_fcf)
calculate_free_cash_flow(operating_cash_flow, revenue, has_fcf) ==
    IF has_fcf.def THEN has_fcf.val
    ELSE operating_cash_flow - MulDiv(revenue, 9, 100)

\* "companies = ['NVDA', 'INTC', 'AMD', 'MCHP', 'LSCC']"
companies == <<"NVDA", "INTC", "AMD", "MCHP", "LSCC">>
\* market_caps[ticker], from market_performance.csv
MarketCapOf(ticker) == IF ticker = "NVDA" THEN 450000000 ELSE 939000

\* "ocf = data.get('operating_cash_flow'); if ocf is None: ... estimated = True"
OcfEstimated(data) == ~data.operating_cash_flow.def

\* The dictionary appended to results for one ticker (lines 95-142); an amount
\* "/ 1e6" is the amount over 100 units.
CashFlowRecord(ticker, data) ==
    LET market_cap == MarketCapOf(ticker)
        ocf == IF OcfEstimated(data)
               THEN estimate_operating_cash_flow(data.net_income, data.revenue,
                                                 data.operating_income, None)
               ELSE data.operating_cash_flow.val
        fcf == IF ~data.free_cash_flow.def
               THEN calculate_free_cash_flow(ocf, data.revenue, None)
               ELSE data.free_cash_flow.val
    IN [ ticker |-> ticker,
         company |-> data.name,
         revenue_m |-> Frac(data.revenue, 100),
         net_income_m |-> Frac(data.net_income, 100),
         operating_cash_flow_m |-> Frac(ocf, 100),
         free_cash_flow_m |-> Frac(fcf, 100),
         market_cap_m |-> Frac(market_cap, 100),
         p_cf |-> QuotientIfPositive(market_cap, ocf),
         p_fcf |-> QuotientIfPositive(market_cap, fcf),
         ocf_margin |-> QuotientIfPositive(ocf * 100, data.revenue),
         fcf_margin |-> QuotientIfPositive(fcf * 100, data.revenue),
         ocf_estimated |-> OcfEstimated(data),
         fcf_estimated |-> ~data.free_cash_flow.def ]

\* "lscc_operating_cf = lscc.get('operating_cash_flow', 69_000_000)"
LsccOperatingCf(data) ==
    IF data.operating_cash_flow.def THEN data.operating_cash_flow.val ELSE 6900
\* "lscc_free_cash_flow = 23_000_000"
LsccFreeCashFlow(data) == LSCC_FREE_CASH_FLOW

\* Entries of master_financials.json
CfEntriesLscc ==
    [ name : {"Lattice"},
      net_income : {-500, 0, 600},
      operating_income : {-2000, -1000, -500, -200, 300},
      revenue : {10000},
      operating_cash_flow : {None, Some(0), Some(700)},
      free_cash_flow : {None, Some(0), Some(-50)} ]
CfEntriesOthers ==
    { [ name |-> "Peer", net_income |-> 600, operating_income |-> 300,
        revenue |-> 10000, operating_cash_flow |-> None,
        free_cash_flow |-> None ],
      [ name |-> "Peer", net_income |-> -500, operating_income |-> -500,
        revenue |-> 0, operating_cash_flow |-> Some(0),
        free_cash_flow |-> Some(0) ] }
CfEntries(ticker) == IF ticker = "LSCC" THEN CfEntriesLscc ELSE CfEntriesOthers

InitCashFlow ==
    /\ \/ cf_pc = "loop" /\ cf_financials = <<>>
       \/ cf_pc = "base" /\ \E data \in CfEntriesLscc : cf_financials = <<data>>
    /\ cf_results = <<>>
    /\ cf_base = None
    /\ IrrIdle /\ HgIdle /\ SwIdle /\ TvIdle /\ PjIdle /\ AoIdle

\* calculate_cash_flow_metrics.py lines 94-153: one turn of "for ticker in
\* companies"
CashFlowTicker ==
    /\ cf_pc = "loop"
    /\ LET ticker == companies[Len(cf_results) + 1] IN
       \E data \in CfEntries(ticker) :
          /\ cf_financials' = Append(cf_financials, data)
          /\ cf_results' = Append(cf_results, CashFlowRecord(ticker, data))
    /\ cf_pc' = IF Len(cf_results) + 1 = Len(companies) THEN "tables" ELSE "loop"
    /\ UNCHANGED cf_base
    /\ UNCHANGED <<irrVars, hgVars, swVars, tvVars, pjVars, aoVars>>

\* lines 155-230: the CSV and LaTeX tables are written from results
CashFlowTables ==
    /\ cf_pc = "tables"
    /\ cf_pc' = "done"
    /\ UNCHANGED <<cf_financials, cf_results, cf_base>>
    /\ UNCHANGED <<irrVars, hgVars, swVars, tvVars, pjVars, aoVars>>

\* calculate_irr_sensitivity.py lines 88-91: the base cash flows of the target
ReadBaseCashFlow ==
    /\ cf_pc = "base"
    /\ cf_base' = Some([ lscc_operating_cf |-> LsccOperatingCf(cf_financials[1]),
                         lscc_free_cash_flow |-> LsccFreeCashFlow(cf_financials[1]) ])
    /\ cf_pc' = "based"
    /\ UNCHANGED <<cf_financials, cf_results>>
    /\ UNCHANGED <<irrVars, hgVars, swVars, tvVars, pjVars, aoVars>>

NextCashFlow == CashFlowTicker \/ CashFlowTables \/ ReadBaseCashFlow

SpecCashFlow == InitCashFlow /\ [][NextCashFlow]_vars

\* The policy stated for a missing operating cash flow: D&A = 3% of revenue;
\* (net_income + D&A) * 0.90 if net_income > 0; otherwise operating_income +
\* D&A if operating_income > -10% of revenue, else the larger of that and 2%
\* of revenue.
OcfPolicy(data) ==
    LET da == (data.revenue * 3) \div 100 IN
    IF data.net_income > 0
    THEN ((data.net_income + da) * 90) \div 100
    ELSE IF data.operating_income * 10 > -data.revenue
         THEN data.operating_income + da
         ELSE Max(data.operating_income + da, (data.revenue * 2) \div 100)

\* C26: with no cash flow facts for an entity, its record carries the policy
\* estimate of operating cash flow, also when that is below 2% of revenue or
\* negative, and free cash flow = that estimate - 9% of revenue.
C26_EstimatesFollowPolicy ==
    \A k \in 1..Len(cf_results) :
        LET data == cf_financials[k] IN
        (~data.operating_cash_flow.def /\ ~data.free_cash_flow.def) =>
            /\ cf_results[k].operating_cash_flow_m.num = OcfPolicy(data)
            /\ cf_results[k].free_cash_flow_m.num
                 = OcfPolicy(data) - (data.revenue * 9) \div 100

\* The figure used for a cash flow fact: the fact itself when the entry has
\* one, 0 included, and the estimate of the estimators otherwise.
OcfToUse(data) ==
    estimate_operating_cash_flow(data.net_income, data.revenue,
                                 data.operating_income, data.operating_cash_flow)
FcfToUse(data) ==
    calculate_free_cash_flow(OcfToUse(data), data.revenue, data.free_cash_flow)
\* In the records of the cash flow metrics the flags say which figures are
\* estimates, and the figures are the facts or the estimates.
RecordsTagEstimates ==
    \A k \in 1..Len(cf_results) :
        LET data == cf_financials[k]
            r == cf_results[k]
        IN  /\ r.ocf_estimated = (data.operating_cash_flow = None)
            /\ r.fcf_estimated = (data.free_cash_flow = None)
            /\ r.operating_cash_flow_m.num = OcfToUse(data)
            /\ r.free_cash_flow_m.num = FcfToUse(data)
\* The base cash flows of the IRR sensitivity are the facts or the estimates
\* too.
BaseCashFlowsFromFacts ==
    cf_base.def =>
        /\ cf_base.val.lscc_operating_cf = OcfToUse(cf_financials[1])
        /\ cf_base.val.lscc_free_cash_flow = FcfToUse(cf_financials[1])

\* C27: ocf_estimated / fcf_estimated are true exactly for the missing facts;
\* a fact supplied, 0 included, is used as it is; a missing fact is estimated,
\* never replaced by zero or by a constant written in the code.
C27_FactsUsedOrEstimated == RecordsTagEstimates /\ BaseCashFlowsFromFacts
\* The part of C27 that the code does satisfy: the records of
\* calculate_cash_flow_metrics.py.
C27_RecordsTagEstimates == RecordsTagEstimates

\* ---------------------------------------------------------------------------
\* The bracket of calculate_irr
\* ---------------------------------------------------------------------------

\* The ceiling check has passed: the loop is running or has returned a number.
InBracketSearch == pc = "loop" \/ (pc = "done" /\ irr.def)
BracketInvariant ==
    InBracketSearch =>
        /\ LOW <= low /\ low <= high /\ high <= HIGH
        /\ NpvSign(cash_flows, high) <= 0
        /\ low # LOW => NpvSign(cash_flows, low) > 0
        /\ irr.def => (LOW * PERCENT <= irr.val /\ irr.val <= HIGH * PERCENT)
\* One iteration that goes on: low does not go down, high does not go up, and
\* the width is halved (to the rate next to the half, on the grid of rates).
BracketStep ==
    (pc = "loop" /\ pc' = "loop" /\ iter' = iter + 1) =>
        /\ low' >= low
        /\ high' <= high
        /\ high' - low' \in {(high - low) \div 2, (high - low) - (high - low) \div 2}

\* C28: past the ceiling check every iteration keeps -0.99 <= low <= high <=
\* 10.0 and NPV(high) <= 0, moves low only upwards and only to a rate of
\* positive NPV, moves high only downwards, and halves high - low; so a result
\* that is a number lies in [-99, 1000] percent.
C28_BracketShrinksAroundRoot == []BracketInvariant /\ [][BracketStep]_vars
C28_Witness ==
    /\ pc = "loop"
    /\ iter >= 3
    /\ low > LOW
    /\ high < HIGH
    /\ NpvSign(cash_flows, low) > 0
    /\ NpvSign(cash_flows, high) <= 0

\* ---------------------------------------------------------------------------
\* N/A in the tables
\* ---------------------------------------------------------------------------

RatioCells ==
    {"pe_ratio", "debt_ebitda", "ebitda_interest", "debt_capitalization",
     "net_debt_capitalization"}

\* C29: a ratio is shown as N/A if and only if it is None; a ratio that is
\* defined and equal to 0, as debt/EBITDA without debt, is shown as a number.
C29_NotAvailableIffAbsent ==
    hg_pc = "table" =>
        \A cell \in RatioCells :
            hg_table.val[cell].na <=> (hg_result.buyer_gets[cell] = None)
\* The part of C29 that the code does satisfy: None is shown as N/A, and a
\* ratio other than 0 as its value to two decimals.
C29_AbsentIsNotAvailable ==
    hg_pc = "table" =>
        \A cell \in RatioCells :
            /\ hg_result.buyer_gets[cell] = None => hg_table.val[cell].na
            /\ TruthyQuotient(hg_result.buyer_gets[cell])
                 => hg_table.val[cell] = format_for_table(hg_result.buyer_gets[cell])

-----------------------------------------------------------------------------
(* calculate_irr_sensitivity.py, lines 120-168 and 216-220: the scenarios  *)
(* of the sweep taken in any order, several of them in evaluation at once  *)

\* The most scenarios in evaluation at the same time.
MaxInFlight == 2

\* Mutant of WorkspaceOf: every scenario builds its stream in the same list.
WorkspaceShared(i) == 1
\* "cash_flows = [-transaction_value]" (line 136): each turn of the loop binds
\* cash_flows to a list of its own, so scenario i works on list i.
WorkspaceOf(i) == i

\* lines 154-165: the IRR and the NPV of the stream a scenario built, and the
\* record appended for it.
ScenarioRecord(i, flows) ==
    [ scenario |-> synergy_scenarios[i].name,
      synergy_multiplier |-> synergy_scenarios[i].multiplier,
      annual_synergies
          |-> MulDiv(BASE_SYNERGIES, synergy_scenarios[i].multiplier, 100),
      irr |-> calculate_irr(flows),
      npv |-> NpvNum(flows, NPV_RATE) ]

\* lines 216-220, one turn: "if result['irr']: expected_irr += prob * (result['irr'] / 100)"
ExpectedIrrAdd(acc, record) ==
    IF Truthy(record.irr)
    THEN acc + Probability(record.scenario) * AsRate(record.irr.val)
    ELSE acc

Scenarios == 1..Len(synergy_scenarios)
InFlight == {i \in Scenarios : ao_phase[i] = "projected"}

\* master_financials.json and market_data.json, as loaded.
AnyOrderData ==
    [ lscc_current_price : {6850},
      lscc_shares : {150},
      lscc_revenue : {50940},
      lscc_operating_income : {3500} ]

InitAnyOrder ==
    /\ ao_in \in AnyOrderData
    /\ ao_sequential = None
    /\ ao_flows = [i \in Scenarios |-> <<>>]
    /\ ao_phase = [i \in Scenarios |-> "todo"]
    /\ ao_records = [i \in Scenarios |-> None]
    /\ ao_expected = 0
    /\ ao_pc = "start"
    /\ IrrIdle /\ HgIdle /\ SwIdle /\ TvIdle /\ PjIdle /\ CfIdle

\* lines 128-165 and 216-220 as written: the scenarios in the order of the
\* dictionary, one after the other, then the expected IRR over "results".
AnyOrderSequential ==
    /\ ao_pc = "start"
    /\ \E rs \in {[i \in Scenarios |-> ScenarioResult(ao_in, i)]} :
         ao_sequential' = Some([results |-> rs, expected_irr |-> ExpectedIrr(rs)])
    /\ ao_pc' = "sweep"
    /\ UNCHANGED <<ao_in, ao_flows, ao_phase, ao_records, ao_expected>>
    /\ UNCHANGED <<irrVars, hgVars, swVars, tvVars, pjVars, cfVars>>

\* lines 129-151 for one scenario: annual_synergies, after_tax_synergies and
\* the stream of HOLDING_PERIOD + 1 entries.
AnyOrderProject ==
    /\ ao_pc = "sweep"
    /\ Cardinality(InFlight) < MaxInFlight
    /\ \E i \in Scenarios :
         /\ ao_phase[i] = "todo"
         /\ ao_flows' = [ao_flows EXCEPT ![WorkspaceOf(i)]
                            = SweepCashFlows(ao_in, synergy_scenarios[i].multiplier)]
         /\ ao_phase' = [ao_phase EXCEPT ![i] = "projected"]
    /\ UNCHANGED <<ao_in, ao_sequential, ao_records, ao_expected, ao_pc>>
    /\ UNCHANGED <<irrVars, hgVars, swVars, tvVars, pjVars, cfVars>>

\* lines 154-165 for one scenario, and its turn of the loop of lines 216-220,
\* which runs over the records in the order they were appended.
AnyOrderSolve ==
    /\ ao_pc = "sweep"
    /\ \E i \in Scenarios :
         /\ ao_phase[i] = "projected"
         /\ \E record \in {ScenarioRecord(i, ao_flows[WorkspaceOf(i)])} :
              /\ ao_records' = [ao_records EXCEPT ![i] = Some(record)]
              /\ ao_expected' = ExpectedIrrAdd(ao_expected, record)
         /\ ao_phase' = [ao_phase EXCEPT ![i] = "done"]
    /\ UNCHANGED <<ao_in, ao_sequential, ao_flows, ao_pc>>
    /\ UNCHANGED <<irrVars, hgVars, swVars, tvVars, pjVars, cfVars>>

\* line 229: "return results"
AnyOrderReturn ==
    /\ ao_pc = "sweep"
    /\ \A i \in Scenarios : ao_phase[i] = "done"
    /\ ao_pc' = "returned"
    /\ UNCHANGED <<ao_in, ao_sequential, ao_flows, ao_phase, ao_records, ao_expected>>
    /\ UNCHANGED <<irrVars, hgVars, swVars, tvVars, pjVars, cfVars>>

NextAnyOrder ==
    AnyOrderSequential \/ AnyOrderProject \/ AnyOrderSolve \/ AnyOrderReturn
SpecAnyOrder == InitAnyOrder /\ [][NextAnyOrder]_vars

C30_WitnessReturned ==
    /\ ao_pc = "returned"
    /\ \A i \in Scenarios : Truthy(ao_records[i].val.irr)
    /\ ao_records[1].val.irr # ao_records[2].val.irr
    /\ ao_expected # 0
=============================================================================
